---- MODULE Spec2Model ----
(***************************************************************************)
(* A model of aur-fetch (src/src/fetch.rs).                                *)
(*                                                                         *)
(* Part I models one package repository on disk and the command sequences  *)
(* that the git_* functions run on it (git_diff, show_git_diff,            *)
(* git_mark_seen, git_rebase, git_commit, git_has_diff, git_unseen).       *)
(* Part II models Fetch::download_repos_cb: the producer thread, the       *)
(* worker threads, the two crossbeam channels, the stop flag and the       *)
(* consumer loop of the calling thread.                                    *)
(***************************************************************************)
EXTENDS Integers, Sequences, FiniteSets, TLC

(***************************************************************************)
(* Bounds of the model.                                                    *)
(***************************************************************************)
MaxCommits == 4

MaxRepos == 3
MaxName == 3

NoCommit == 0

Min(a, b) == IF a <= b THEN a ELSE b

(***************************************************************************)
(* Part I.  One repository.                                                *)
(*                                                                         *)
(* repo is the disk state the git commands read and write:                 *)
(*   ncommits  commits are 1..ncommits                                     *)
(*   parent    parent[c] is the parent of commit c (NoCommit for the root  *)
(*             and for commits that do not exist yet)                      *)
(*   head      the commit HEAD resolves to                                 *)
(*   branch    the commit the default branch (master) points to            *)
(*   detached  HEAD is not a symbolic ref                                  *)
(*   seen      the commit AUR_SEEN points to, NoCommit when the ref is     *)
(*             absent                                                      *)
(*   upstream  the commit HEAD@{u} resolves to                             *)
(*   dirty     the working tree has uncommitted edits                      *)
(*   inMerge   a merge is in progress (MERGE_HEAD exists, index staged)    *)
(*   midRebase a rebase stopped part way                                   *)
(*   exists    clone_dir/<pkg>/.git is a directory                         *)
(* ret is what the last operation returned (ok, err, and its value: val    *)
(* for a diff, flag for a boolean, log for the commits of a log), the      *)
(* commands it issued, the disk state it started from, whether the remote  *)
(* had gained a commit (gain, for a download), whether user.name and       *)
(* user.email are configured (hasUser, for a commit) and, for a download,  *)
(* whether the operation before it was a successful download               *)
(* (afterDownload).                                                        *)
(* markedSeen is a history variable: a mark_seen has succeeded and no      *)
(* fetch has moved upstream since.                                         *)
(***************************************************************************)
VARIABLES repo, ret, markedSeen

gitVars == <<repo, ret, markedSeen>>

(***************************************************************************)
(* Part II (declared here, defined below).  One call of download_repos_cb. *)
(*   repos        the input list, by name                                  *)
(*   present      the names whose directory under clone_dir holds .git     *)
(*   workerLimit  the 20 of line 169                                       *)
(*   fetchedCap   the capacity of the fetched channel, the 32 of line 155  *)
(*   mainpc       the calling thread: "off" (no call), "start", "consume"  *)
(*                (the for loop over fetched_rec), "join" (the scope waits *)
(*                for the threads), "done" (returned)                      *)
(*   prodpc, prodIdx  the producer thread and the index it sends next      *)
(*   wpc, wjob, wfetched  each worker's position, the index it holds and   *)
(*                the `fetched` of its download_pkg                        *)
(*   stop         the AtomicBool                                           *)
(*   chan         the messages buffered in the fetched channel             *)
(*   rxDropped    fetched_rec has been dropped                             *)
(*   n, fetched   the consumer's enumerate index and its Vec               *)
(*   result       what the call returns                                    *)
(* History variables: presentBefore (present at the call), arrived (every  *)
(* message accepted by the fetched channel, in order), callbacks (every    *)
(* invocation of f), handed, started (per index: times handed to a worker, *)
(* times its process was started), startedBy (per index: the worker that   *)
(* started its process, 0 for none), outcome (per index: "none", "ok",     *)
(* "fail"), afterStop (processes that ended after stop was set), skipped   *)
(* (the indexes a worker held when it loaded stop and stop was set).       *)
(***************************************************************************)
VARIABLES repos, present, workerLimit, fetchedCap, mainpc, prodpc, prodIdx,
          wpc, wjob, wfetched, stop, chan, rxDropped, n, fetched, result,
          presentBefore, arrived, callbacks, handed, started, startedBy, outcome,
          afterStop, skipped

dlVars == <<repos, present, workerLimit, fetchedCap, mainpc, prodpc, prodIdx,
            wpc, wjob, wfetched, stop, chan, rxDropped, n, fetched, result,
            presentBefore, arrived, callbacks, handed, started, startedBy, outcome,
            afterStop, skipped>>

(***************************************************************************)
(* Part III (declared here, defined below).  One call of Fetch::merge_cb.  *)
(*   mergePkgs      the disk state of each package of pkgs, in order       *)
(*   mergeN         the n of enumerate(): packages rebased so far          *)
(*   mergePc        "off" (no call), "loop", "done" (returned)             *)
(*   mergeResult    what the call returns                                  *)
(* History variables: mergePre (mergePkgs at the call), mergeCmds (the     *)
(* commands issued on each package), mergeCallbacks (every invocation of   *)
(* cb), mergeFailedAt (the position of the package whose git_rebase        *)
(* failed, 0 for none).                                                    *)
(***************************************************************************)
VARIABLES mergePkgs, mergeN, mergePc, mergeResult, mergePre, mergeCmds,
          mergeCallbacks, mergeFailedAt

mergeVars == <<mergePkgs, mergeN, mergePc, mergeResult, mergePre, mergeCmds,
               mergeCallbacks, mergeFailedAt>>

(***************************************************************************)
(* Part IV (declared here, defined below).  One call of Fetch::save_diffs, *)
(* then one of Fetch::make_view on the same list.                          *)
(*   savePkgs     the list of package names, each a sequence of characters *)
(*   saveIdx      the position of the for loop of save_diffs               *)
(*   savePc       "off" (no call), "start", "loop", "done" (returned),     *)
(*                "viewed" (make_view returned)                            *)
(*   saveFiles    diff_dir: the content of each file it holds, by name     *)
(*   saveResult   what save_diffs returns                                  *)
(*   viewLinks    the names make_view linked from diff_dir                 *)
(*   viewResult   what make_view returns                                   *)
(* History variable: saveWritten (the path each iteration created).        *)
(***************************************************************************)
VARIABLES savePkgs, saveIdx, savePc, saveFiles, saveResult, saveWritten,
          viewLinks, viewResult

saveVars == <<savePkgs, saveIdx, savePc, saveFiles, saveResult, saveWritten,
              viewLinks, viewResult>>

vars == <<gitVars, dlVars, mergeVars, saveVars>>

Commits == 1..MaxCommits

RECURSIVE IsAncestor(_, _, _)
\* git merge-base --is-ancestor a b: a is b or an ancestor of b.
IsAncestor(r, a, b) ==
    IF b = NoCommit THEN FALSE
    ELSE IF a = b THEN TRUE
    ELSE IsAncestor(r, a, r.parent[b])

RECURSIVE LocalCommits(_, _, _)
\* The commits of b's history that are not in a's history, b first.
LocalCommits(r, a, b) ==
    IF b = NoCommit \/ IsAncestor(r, b, a) THEN <<>>
    ELSE <<b>> \o LocalCommits(r, a, r.parent[b])

\* A diff is named by the two trees it compares; from = NoCommit is the empty
\* tree 4b825dc642cb6eb9a060e54bf8d69288fbee4904.
Diff(from, to) == [from |-> from, to |-> to]

NoVal == Diff(NoCommit, NoCommit)

\* What a function returns: ok, the failing command (when not ok), the value
\* (when ok) and the commands issued, in order.
Ok(r, v, cmds) ==
    [repo |-> r, ok |-> TRUE, err |-> "", val |-> v, flag |-> FALSE, log |-> <<>>,
     cmds |-> cmds]

Err(r, e, cmds) ==
    [repo |-> r, ok |-> FALSE, err |-> e, val |-> NoVal, flag |-> FALSE, log |-> <<>>,
     cmds |-> cmds]

\* Ok(b) of a function that returns a bool.
OkFlag(r, b, cmds) == [Ok(r, NoVal, cmds) EXCEPT !.flag = b]

\* HEAD moves to c; the checked-out branch moves with it unless HEAD is detached.
MoveHead(r, c) ==
    [r EXCEPT !.head = c, !.branch = IF r.detached THEN r.branch ELSE c]

\* git reset <c> without --hard: the index and the working tree are kept.
ResetHard_soft(r, c) == MoveHead(r, c)

\* git reset --hard <c>: HEAD (and its branch) move to c, the index and the
\* working tree are overwritten, a merge in progress is dropped.
ResetHard(r, c) ==
    [MoveHead(r, c) EXCEPT !.dirty = FALSE, !.inMerge = FALSE]

\* HEAD@{u} resolves: the directory is a repository and HEAD is on a branch
\* (with a detached HEAD git answers "HEAD does not point to a branch").
ResolvesUpstream(r) == r.exists /\ ~r.detached

\* git merge --no-edit --no-ff --no-commit (of HEAD@{u}) when it succeeds:
\* nothing to do when upstream is already in HEAD's history, otherwise the
\* merge result is staged and left uncommitted.
MergeNoCommit(r) ==
    IF IsAncestor(r, r.upstream, r.head) THEN r
    ELSE [r EXCEPT !.inMerge = TRUE]

\* The same command when it fails: with diverged histories it stops on the
\* conflict with the merge in progress; otherwise (and when there is no
\* upstream to merge) it changed nothing.
MergeFailed(r) ==
    IF /\ ResolvesUpstream(r)
       /\ ~IsAncestor(r, r.upstream, r.head)
       /\ ~IsAncestor(r, r.head, r.upstream)
    THEN [r EXCEPT !.inMerge = TRUE, !.dirty = TRUE]
    ELSE r

\* The next commit id: a new commit c with parent p.
NewCommit(r, p) ==
    [r EXCEPT !.ncommits = r.ncommits + 1, !.parent[r.ncommits + 1] = p]

\* git_has_seen verifying HEAD in place of AUR_SEEN.
git_has_seen_head(r) == r.head # NoCommit

\* src/src/fetch.rs:595 git_has_seen: rev-parse --verify AUR_SEEN succeeded.
git_has_seen(r) == r.seen # NoCommit

\* src/src/fetch.rs:604 git_head: rev-parse HEAD.
git_head(r) == r.head

\* src/src/fetch.rs:610 git_diff.  fail names the command that exits non-zero
\* ("" when none does) beside those that cannot succeed on this disk state: any
\* command without a repository, the merge and the diff to HEAD@{u} without an
\* upstream.  Every git_command(...)? returns at once on failure.
git_diff(r, fail) ==
    LET head == git_head(r) IN
    IF fail = "rev-parse" \/ ~r.exists THEN Err(r, "rev-parse", <<"rev-parse">>)
    ELSE IF git_has_seen(r) THEN
        IF fail = "reset-seen"
        THEN Err(r, "reset-seen", <<"rev-parse", "reset-seen">>)
        ELSE LET r1 == ResetHard(r, r.seen) IN
             IF fail = "merge" \/ ~ResolvesUpstream(r1)
             THEN Err(MergeFailed(r1), "merge",
                      <<"rev-parse", "reset-seen", "merge">>)
             ELSE LET r2 == MergeNoCommit(r1) IN
                  IF fail = "diff"
                  THEN Err(r2, "diff", <<"rev-parse", "reset-seen", "merge", "diff-cached">>)
                  ELSE IF fail = "reset-head"
                  THEN Err(r2, "reset-head",
                           <<"rev-parse", "reset-seen", "merge", "diff-cached", "reset-head">>)
                  ELSE Ok(ResetHard(r2, head), Diff(r.seen, r.upstream),
                          <<"rev-parse", "reset-seen", "merge", "diff-cached", "reset-head">>)
    ELSE
        IF fail = "diff" \/ ~ResolvesUpstream(r)
        THEN Err(r, "diff", <<"rev-parse", "diff-empty">>)
        ELSE IF fail = "reset-head"
        THEN Err(r, "reset-head", <<"rev-parse", "diff-empty", "reset-head">>)
        ELSE Ok(ResetHard(r, head), Diff(NoCommit, r.upstream),
                <<"rev-parse", "diff-empty", "reset-head">>)

\* src/src/fetch.rs:670 show_git_diff: the same sequence, the diff streamed by
\* show_git_command and nothing returned.
show_git_diff(r, fail) ==
    LET head == git_head(r) IN
    IF fail = "rev-parse" \/ ~r.exists THEN Err(r, "rev-parse", <<"rev-parse">>)
    ELSE IF git_has_seen(r) THEN
        IF fail = "reset-seen"
        THEN Err(r, "reset-seen", <<"rev-parse", "reset-seen">>)
        ELSE LET r1 == ResetHard(r, r.seen) IN
             IF fail = "merge" \/ ~ResolvesUpstream(r1)
             THEN Err(MergeFailed(r1), "merge",
                      <<"rev-parse", "reset-seen", "merge">>)
             ELSE LET r2 == MergeNoCommit(r1) IN
                  IF fail = "diff"
                  THEN Err(r2, "diff", <<"rev-parse", "reset-seen", "merge", "show-diff-cached">>)
                  ELSE IF fail = "reset-head"
                  THEN Err(r2, "reset-head",
                           <<"rev-parse", "reset-seen", "merge", "show-diff-cached", "reset-head">>)
                  ELSE Ok(ResetHard(r2, head), NoVal,
                          <<"rev-parse", "reset-seen", "merge", "show-diff-cached", "reset-head">>)
    ELSE
        IF fail = "diff" \/ ~ResolvesUpstream(r)
        THEN Err(r, "diff", <<"rev-parse", "show-diff-empty">>)
        ELSE IF fail = "reset-head"
        THEN Err(r, "reset-head", <<"rev-parse", "show-diff-empty", "reset-head">>)
        ELSE Ok(ResetHard(r, head), NoVal, <<"rev-parse", "show-diff-empty", "reset-head">>)

\* src/src/fetch.rs:530 git_mark_seen: update-ref AUR_SEEN HEAD.
git_mark_seen(r, fail) ==
    IF fail = "update-ref" \/ ~r.exists THEN Err(r, "update-ref", <<"update-ref">>)
    ELSE Ok([r EXCEPT !.seen = r.head], NoVal, <<"update-ref">>)

\* merge-base --is-ancestor with its two arguments exchanged.
MergeBaseIsAncestor_swapped(r) ==
    ResolvesUpstream(r) /\ IsAncestor(r, r.seen, r.upstream)

\* merge-base --is-ancestor HEAD@{u} AUR_SEEN exits with 0.
MergeBaseIsAncestor(r) ==
    ResolvesUpstream(r) /\ IsAncestor(r, r.upstream, r.seen)

\* src/src/fetch.rs:550 git_unseen: without AUR_SEEN Ok(true); with it, Ok of
\* whether merge-base --is-ancestor HEAD@{u} AUR_SEEN is_err().
git_unseen(r) ==
    IF git_has_seen(r)
    THEN OkFlag(r, ~MergeBaseIsAncestor(r), <<"rev-parse-verify", "merge-base">>)
    ELSE OkFlag(r, TRUE, <<"rev-parse-verify">>)

\* The comparison of line 579 with == in place of !=.
HeadNeUpstream_eq(seen, upstream) == seen = upstream

\* The comparison of line 579 between the two lines rev-parse printed.
HeadNeUpstream(seen, upstream) == seen # upstream

\* src/src/fetch.rs:565 git_has_diff: with AUR_SEEN, rev-parse AUR_SEEN HEAD@{u}
\* (returned through `?` when it fails) and Ok of whether its two lines
\* differ; without it, Ok(false).
git_has_diff(r, fail) ==
    IF git_has_seen(r) THEN
        IF fail = "rev-parse" \/ ~ResolvesUpstream(r)
        THEN Err(r, "rev-parse", <<"rev-parse-verify", "rev-parse">>)
        ELSE OkFlag(r, HeadNeUpstream(r.seen, r.upstream),
                    <<"rev-parse-verify", "rev-parse">>)
    ELSE OkFlag(r, FALSE, <<"rev-parse-verify">>)

\* src/src/fetch.rs:585 git_log: log ..HEAD@{u}, the commits of upstream's
\* history that are not in HEAD's.
git_log(r, fail) ==
    IF fail = "log" \/ ~ResolvesUpstream(r) THEN Err(r, "log", <<"log">>)
    ELSE [Ok(r, NoVal, <<"log">>) EXCEPT !.log = LocalCommits(r, r.head, r.upstream)]

RECURSIVE Replay(_, _, _)
\* git rebase replaying the commits of seq (last one first in time) on top of
\* base: one new commit for each, HEAD on the last one made.
Replay(r, base, todo) ==
    IF todo = <<>> THEN MoveHead(r, base)
    ELSE LET r1 == NewCommit(r, base) IN
         Replay(r1, r1.ncommits, SubSeq(todo, 1, Len(todo) - 1))

\* git_rebase without the checkout of master after a failed symbolic-ref.
git_rebase_nocheckout(r, fail) ==
    IF fail = "reset-head" \/ ~r.exists THEN Err(r, "reset-head", <<"reset-head">>)
    ELSE
    LET r2 == ResetHard(r, r.head)
        cmds == <<"reset-head", "symbolic-ref">>
        todo == LocalCommits(r2, r2.upstream, r2.head)
    IN  IF fail = "rebase" \/ r2.midRebase \/ r2.detached
        THEN Err(r2, "rebase", cmds \o <<"rebase">>)
        ELSE IF IsAncestor(r2, r2.upstream, r2.head)
        THEN Ok(r2, NoVal, cmds \o <<"rebase">>)
        ELSE Ok(Replay(r2, r2.upstream, todo), NoVal, cmds \o <<"rebase">>)

\* git_rebase without its last command, the rebase.
git_rebase_norebase(r, fail) ==
    IF fail = "reset-head" \/ ~r.exists THEN Err(r, "reset-head", <<"reset-head">>)
    ELSE
    LET r1 == ResetHard(r, r.head)
        det == r1.detached
        pre == <<"reset-head", "symbolic-ref">>
        cmds == IF det THEN pre \o <<"checkout">> ELSE pre
        r2 == IF det THEN [r1 EXCEPT !.detached = FALSE, !.head = r1.branch] ELSE r1
    IN  IF det /\ fail = "checkout" THEN Err(r1, "checkout", cmds)
        ELSE Ok(r2, NoVal, cmds)

\* src/src/fetch.rs:538 git_rebase: reset --hard -q HEAD, checkout master when
\* symbolic-ref -q HEAD fails, rebase --stat.
git_rebase(r, fail) ==
    IF fail = "reset-head" \/ ~r.exists THEN Err(r, "reset-head", <<"reset-head">>)
    ELSE
    LET r1 == ResetHard(r, r.head)
        det == r1.detached
        pre == <<"reset-head", "symbolic-ref">>
        cmds == IF det THEN pre \o <<"checkout">> ELSE pre
        r2 == IF det THEN [r1 EXCEPT !.detached = FALSE, !.head = r1.branch] ELSE r1
        todo == LocalCommits(r2, r2.upstream, r2.head)
    IN  IF det /\ fail = "checkout" THEN Err(r1, "checkout", cmds)
        ELSE IF fail = "rebase" \/ r2.midRebase
        THEN Err(IF todo # <<>> /\ ~IsAncestor(r2, r2.upstream, r2.head) /\ ~r2.midRebase
                 THEN [r2 EXCEPT !.midRebase = TRUE, !.detached = TRUE,
                                 !.head = r2.upstream, !.dirty = TRUE]
                 ELSE r2,
                 "rebase", cmds \o <<"rebase">>)
        ELSE IF IsAncestor(r2, r2.upstream, r2.head)
        THEN Ok(r2, NoVal, cmds \o <<"rebase">>)
        ELSE Ok(Replay(r2, r2.upstream, todo), NoVal, cmds \o <<"rebase">>)

\* src/src/fetch.rs:715 git_commit.  hasName, hasEmail: config user.name and
\* config user.email succeed (the second runs only after the first succeeded).
\* When diff --exit-code exits non-zero (is_err(): also when it cannot run),
\* commit -am <message> with has_user, the commit of lines 732-744 without.
git_commit(r, hasName, hasEmail, fail) ==
    LET has_user == r.exists /\ hasName /\ hasEmail
        config == IF r.exists /\ hasName THEN <<"config-name", "config-email">>
                  ELSE <<"config-name">>
        commit == IF has_user THEN "commit" ELSE "commit-fallback"
        cmds == config \o <<"diff", commit>>
    IN  IF r.dirty \/ ~r.exists THEN
            IF fail = "commit" \/ ~r.exists
            THEN Err(r, "commit", cmds)
            ELSE Ok([MoveHead(NewCommit(r, r.head), r.ncommits + 1)
                         EXCEPT !.dirty = FALSE, !.inMerge = FALSE],
                    NoVal, cmds)
        ELSE Ok(r, NoVal, config \o <<"diff">>)

\* src/src/fetch.rs:218 the fetch of download_pkg on a repository that is
\* present: upstream gained `gain` commits on the remote.
git_fetch(r, gain, fail) ==
    IF fail = "fetch" THEN Err(r, "fetch", <<"fetch">>)
    ELSE IF gain THEN
        LET r1 == NewCommit(r, r.upstream) IN
        Ok([r1 EXCEPT !.upstream = r1.ncommits], NoVal, <<"fetch">>)
    ELSE Ok(r, NoVal, <<"fetch">>)

\* The repository right after its clone: one commit, checked out, no AUR_SEEN.
ClonedRepo ==
    [ncommits |-> 1, parent |-> [c \in Commits |-> NoCommit],
     head |-> 1, branch |-> 1, detached |-> FALSE, seen |-> NoCommit,
     upstream |-> 1, dirty |-> FALSE, inMerge |-> FALSE, midRebase |-> FALSE,
     exists |-> TRUE]

\* No directory clone_dir/<pkg> yet.
NoRepo ==
    [ncommits |-> 0, parent |-> [c \in Commits |-> NoCommit],
     head |-> NoCommit, branch |-> NoCommit, detached |-> FALSE, seen |-> NoCommit,
     upstream |-> NoCommit, dirty |-> FALSE, inMerge |-> FALSE, midRebase |-> FALSE,
     exists |-> FALSE]

\* download_pkg with `fetched` left false on the fetch branch.
download_pkg_unfetched(r, gain, fail) ==
    IF r.exists THEN git_fetch(r, gain, fail)
    ELSE
        IF fail = "clone" THEN Err(r, "clone", <<"clone">>)
        ELSE OkFlag(ClonedRepo, FALSE, <<"clone">>)

\* src/src/fetch.rs:210 download_pkg: git fetch -v in the directory when
\* is_git_repo, git clone otherwise; Ok((fetched, stderr)) with fetched true for
\* the fetch and false for the clone.
download_pkg(r, gain, fail) ==
    IF r.exists THEN
        LET o == git_fetch(r, gain, fail) IN
        IF o.ok THEN [o EXCEPT !.flag = TRUE] ELSE o
    ELSE
        IF fail = "clone" THEN Err(r, "clone", <<"clone">>)
        ELSE OkFlag(ClonedRepo, FALSE, <<"clone">>)

\* src/src/fetch.rs:286 Fetch::diff and 327 Fetch::save_diffs for one package:
\* git_log(...)? and then git_diff(...)?, the log text ahead of the diff.
diff(r, fail) ==
    LET l == git_log(r, fail) IN
    IF ~l.ok THEN l
    ELSE LET o == git_diff(r, fail) IN
         [o EXCEPT !.cmds = l.cmds \o o.cmds,
                   !.log = IF o.ok THEN l.log ELSE <<>>]

(***************************************************************************)
(* The processes behind the command names of ret.cmds: the argument vector *)
(* and the environment additions each one is started with.                 *)
(***************************************************************************)
\* Values of Fetch::git_flags.
FlagLists == {<<>>, <<"--no-pager">>, <<"-c", "core.pager=cat">>}

\* The variable set by .env("GIT_TERMINAL_PROMPT", "0").
TerminalPromptOff == "GIT_TERMINAL_PROMPT=0"

\* The args each function passes for the command it issues.
Args(name) ==
    CASE name = "rev-parse" -> <<"rev-parse", "HEAD">>
      [] name = "rev-parse-verify" -> <<"rev-parse", "--verify", "AUR_SEEN">>
      [] name = "reset-seen" -> <<"reset", "--hard", "AUR_SEEN">>
      [] name = "reset-head" -> <<"reset", "--hard", "<head>">>
      [] name = "merge" -> <<"-c", "user.email=aur", "-c", "user.name=aur", "merge",
                             "--no-edit", "--no-ff", "--no-commit">>
      [] name \in {"diff-cached", "show-diff-cached"} ->
             <<"diff", "--stat", "--patch", "--cached", "--", ":!.SRCINFO">>
      [] name \in {"diff-empty", "show-diff-empty"} ->
             <<"diff", "--stat", "--patch",
               "4b825dc642cb6eb9a060e54bf8d69288fbee4904..HEAD@{u}", "--", ":!.SRCINFO">>
      [] name = "update-ref" -> <<"update-ref", "AUR_SEEN", "HEAD">>
      [] name = "symbolic-ref" -> <<"symbolic-ref", "-q", "HEAD">>
      [] name = "checkout" -> <<"checkout", "master">>
      [] name = "rebase" -> <<"rebase", "--stat">>
      [] name = "merge-base" -> <<"merge-base", "--is-ancestor", "HEAD@{u}", "AUR_SEEN">>
      [] name = "log" -> <<"log", "..HEAD@{u}">>
      [] name = "config-name" -> <<"config", "user.name">>
      [] name = "config-email" -> <<"config", "user.email">>
      [] name = "commit-fallback" ->
             <<"-c", "user.email=aur", "-c", "user.name=aur", "commit", "-am", "AUR">>
      [] name = "diff" -> <<"diff", "--exit-code">>
      [] name = "commit" -> <<"commit", "-am", "<message>">>
      [] name = "fetch" -> <<"fetch", "-v">>
      [] name = "clone" -> <<"clone", "--no-progress", "--", "<url>", "<dir>">>

\* src/src/fetch.rs:475 git_command: .args(flags).args(args).env(...).
git_command(flags, args) == [argv |-> flags \o args, env |-> {TerminalPromptOff}]

\* src/src/fetch.rs:503 show_git_command: the same command line, spawned.
show_git_command(flags, args) == [argv |-> flags \o args, env |-> {TerminalPromptOff}]

\* src/src/fetch.rs:216-225 the Command download_pkg builds itself:
\* Command::new(&self.git), .args([...]) and nothing else.
download_command(flags, args) == [argv |-> args, env |-> {}]

\* The process started for a command name, by the function that issues it.
Invocation(flags, name) ==
    IF name \in {"fetch", "clone"} THEN download_command(flags, Args(name))
    ELSE IF name \in {"show-diff-cached", "show-diff-empty"}
    THEN show_git_command(flags, Args(name))
    ELSE git_command(flags, Args(name))

Returned(op, o) ==
    [op |-> op, ok |-> o.ok, err |-> o.err, val |-> o.val, flag |-> o.flag,
     log |-> o.log, cmds |-> o.cmds, pre |-> repo, gain |-> FALSE, hasUser |-> FALSE,
     afterDownload |-> (op = "download" /\ ret.op = "download" /\ ret.ok)]

NoRet ==
    [op |-> "", ok |-> TRUE, err |-> "", val |-> NoVal, flag |-> FALSE, log |-> <<>>,
     cmds |-> <<>>, pre |-> NoRepo, gain |-> FALSE, hasUser |-> FALSE,
     afterDownload |-> FALSE]

\* The package was cloned by an earlier run, or not yet.
GitInit ==
    /\ repo \in {NoRepo, ClonedRepo}
    /\ ret = NoRet
    /\ markedSeen = FALSE

DiffFails == {"", "rev-parse", "reset-seen", "merge", "diff", "reset-head"}

\* Fetch::diff / Fetch::save_diffs on this package: git_log, git_diff.
GitDiff ==
    \E fail \in DiffFails \cup {"log"} :
        LET o == diff(repo, fail) IN
        /\ repo' = o.repo
        /\ ret' = Returned("git_diff", o)
        /\ UNCHANGED <<markedSeen, dlVars, mergeVars, saveVars>>

\* Fetch::print_diff on this package: show_git_diff.
ShowGitDiff ==
    \E fail \in DiffFails :
        LET o == show_git_diff(repo, fail) IN
        /\ repo' = o.repo
        /\ ret' = Returned("show_git_diff", o)
        /\ UNCHANGED <<markedSeen, dlVars, mergeVars, saveVars>>

\* Fetch::mark_seen on this package.
MarkSeen ==
    \E fail \in {"", "update-ref"} :
        LET o == git_mark_seen(repo, fail) IN
        /\ repo' = o.repo
        /\ ret' = Returned("mark_seen", o)
        /\ markedSeen' = (o.ok \/ markedSeen)
        /\ UNCHANGED <<dlVars, mergeVars, saveVars>>

\* Fetch::merge on this package.
Merge ==
    \E fail \in {"", "reset-head", "checkout", "rebase"} :
        LET o == git_rebase(repo, fail) IN
        /\ o.repo.ncommits <= MaxCommits
        /\ repo' = o.repo
        /\ ret' = Returned("merge", o)
        /\ UNCHANGED <<markedSeen, dlVars, mergeVars, saveVars>>

\* Fetch::commit on this package.
Commit ==
    \E hasName, hasEmail \in BOOLEAN, fail \in {"", "commit"} :
        LET o == git_commit(repo, hasName, hasEmail, fail) IN
        /\ o.repo.ncommits <= MaxCommits
        /\ repo' = o.repo
        /\ ret' = [Returned("commit", o) EXCEPT !.hasUser = hasName /\ hasEmail]
        /\ UNCHANGED <<markedSeen, dlVars, mergeVars, saveVars>>

\* download_pkg on this package: git fetch when it is present, git clone
\* otherwise.  gain: the remote has a commit the last fetch did not see.
Fetch ==
    \E gain \in BOOLEAN, fail \in {"", "fetch", "clone"} :
        LET o == download_pkg(repo, gain, fail) IN
        /\ o.repo.ncommits <= MaxCommits
        /\ repo' = o.repo
        /\ ret' = [Returned("download", o) EXCEPT !.gain = gain]
        /\ markedSeen' = (markedSeen /\ o.repo.upstream = repo.upstream)
        /\ UNCHANGED <<dlVars, mergeVars, saveVars>>

\* Fetch::has_diff on this package.
HasDiff ==
    \E fail \in {"", "rev-parse"} :
        LET o == git_has_diff(repo, fail) IN
        /\ repo' = o.repo
        /\ ret' = Returned("has_diff", o)
        /\ UNCHANGED <<markedSeen, dlVars, mergeVars, saveVars>>

\* Fetch::unseen on this package.
Unseen ==
    LET o == git_unseen(repo) IN
    /\ repo' = o.repo
    /\ ret' = Returned("unseen", o)
    /\ UNCHANGED <<markedSeen, dlVars, mergeVars, saveVars>>

\* The user edits a file of the working tree.
Edit ==
    /\ repo.exists
    /\ ~repo.dirty
    /\ repo' = [repo EXCEPT !.dirty = TRUE]
    /\ ret' = [NoRet EXCEPT !.op = "edit", !.pre = repo]
    /\ UNCHANGED <<markedSeen, dlVars, mergeVars, saveVars>>

GitNext ==
    \/ GitDiff
    \/ ShowGitDiff
    \/ MarkSeen
    \/ Merge
    \/ Commit
    \/ Fetch
    \/ HasDiff
    \/ Unseen
    \/ Edit


(***************************************************************************)
(* Part II.  Fetch::download_repos_cb (src/src/fetch.rs:153-208).          *)
(***************************************************************************)
\* src/src/fetch.rs:169 the 20 of `0..20.min(repos.len())`.
K == 20

\* src/src/fetch.rs:155 channel::bounded(32).
FetchedCap == 32

Names == {"a", "b"}

Workers == 1..MaxRepos

Indexes == 1..MaxRepos

\* The input lists: every list of at most MaxRepos names (a name may repeat).
Lists == UNION {[1..k -> Names] : k \in 0..MaxRepos}

\* A variant of NumWorkers: one worker per repository, the limit forgotten.
NumWorkers_unbounded(limit, rs) == Len(rs)

\* src/src/fetch.rs:169 the number of worker threads spawned.
NumWorkers(limit, rs) == Min(limit, Len(rs))

\* src/src/fetch.rs:454 is_git_repo: clone_dir/<pkg>/.git is a directory.
is_git_repo(disk, pkg) == pkg \in disk

\* A variant of download_pkg_fetched: a clone reported as a fetch too.
download_pkg_fetched_always(disk, pkg) == TRUE

\* src/src/fetch.rs:218 download_pkg: `fetched` is true when it runs a fetch.
download_pkg_fetched(disk, pkg) == is_git_repo(disk, pkg)

\* A variant of CallbackN: enumerate's index itself, counting from 0.
CallbackN_index(i) == i

\* src/src/fetch.rs:198 the n of the Callback made of enumerate's index.
CallbackN(i) == i + 1

\* A variant of ProducerNext: the producer skips every other reference.
ProducerNext_skip(i) == i + 2

\* src/src/fetch.rs:162 the producer's `for repo in repos`: the index after i.
ProducerNext(i) == i + 1

\* src/src/fetch.rs:179 and 183: what a worker sends.
OkMsg(i, f) == [ok |-> TRUE, idx |-> i, fetched |-> f]

ErrMsg(i) == [ok |-> FALSE, idx |-> i, fetched |-> FALSE]

\* A variant of IsErr: the consumer takes every message for an Ok.
IsErr_never(msg) == FALSE

\* src/src/fetch.rs:195 `msg?`: the consumer returns on an Err message.
IsErr(msg) == ~msg.ok

\* A variant of SeesStop: the worker never looks at the flag.
SeesStop_never(flag) == FALSE

\* src/src/fetch.rs:174 the worker's test of the stop flag.
SeesStop(flag) == flag

NoResult == [ok |-> TRUE, err |-> 0, fetched |-> <<>>]

\* Every worker thread has returned (or was never spawned): all clones of
\* pkg_rec and of fetched_send are dropped.
AllWorkersGone == \A w \in Workers : wpc[w] \in {"none", "exit"}

\* A variant of SendersDropped: the caller keeps its fetched_send.
SendersDropped_never == FALSE

\* src/src/fetch.rs:192 drop(fetched_send): with the caller's sender dropped,
\* the fetched channel is disconnected once every worker has returned.
SendersDropped == AllWorkersGone

\* The calling thread keeping its pkg_rec (no drop(pkg_rec)): pkg_send.send
\* never fails.
ReceiversDropped_never == FALSE

\* Lines 170 and 191: every clone of pkg_rec is dropped, the workers' when
\* they end and the calling thread's by drop(pkg_rec).
ReceiversDropped == AllWorkersGone

DlInitWith(configs) ==
    /\ repos \in Lists
    /\ present \in SUBSET Names
    /\ presentBefore = present
    /\ \E c \in configs : workerLimit = c[1] /\ fetchedCap = c[2]
    /\ mainpc = "start"
    /\ prodpc = "none"
    /\ prodIdx = 1
    /\ wpc = [w \in Workers |-> "none"]
    /\ wjob = [w \in Workers |-> 0]
    /\ wfetched = [w \in Workers |-> FALSE]
    /\ stop = FALSE
    /\ chan = <<>>
    /\ rxDropped = FALSE
    /\ n = 0
    /\ fetched = <<>>
    /\ result = NoResult
    /\ arrived = <<>>
    /\ callbacks = <<>>
    /\ handed = [i \in Indexes |-> 0]
    /\ started = [i \in Indexes |-> 0]
    /\ outcome = [i \in Indexes |-> "none"]
    /\ afterStop = 0
    /\ startedBy = [i \in Indexes |-> 0]
    /\ skipped = {}

\* No call of download_repos_cb (the specification of Part I).
DlOff ==
    /\ repos = <<>>
    /\ present = {}
    /\ presentBefore = {}
    /\ workerLimit = K
    /\ fetchedCap = FetchedCap
    /\ mainpc = "off"
    /\ prodpc = "none"
    /\ prodIdx = 1
    /\ wpc = [w \in Workers |-> "none"]
    /\ wjob = [w \in Workers |-> 0]
    /\ wfetched = [w \in Workers |-> FALSE]
    /\ stop = FALSE
    /\ chan = <<>>
    /\ rxDropped = FALSE
    /\ n = 0
    /\ fetched = <<>>
    /\ result = NoResult
    /\ arrived = <<>>
    /\ callbacks = <<>>
    /\ handed = [i \in Indexes |-> 0]
    /\ started = [i \in Indexes |-> 0]
    /\ outcome = [i \in Indexes |-> "none"]
    /\ afterStop = 0
    /\ startedBy = [i \in Indexes |-> 0]
    /\ skipped = {}

\* Lines 154-192: the channels, the producer thread, the worker threads, the
\* drop of the caller's pkg_rec and fetched_send.
Spawn ==
    /\ mainpc = "start"
    /\ mainpc' = "consume"
    /\ prodpc' = "send"
    /\ wpc' = [w \in Workers |->
                 IF w <= NumWorkers(workerLimit, repos) THEN "recv" ELSE "none"]
    /\ UNCHANGED <<repos, present, workerLimit, fetchedCap, prodIdx, wjob, wfetched,
                   stop, chan, rxDropped, n, fetched, result, presentBefore,
                   arrived, callbacks, handed, started, outcome, afterStop, startedBy, skipped, gitVars, mergeVars, saveVars>>

\* Lines 163 and 173: pkg_send.send(repo) meets a worker's receive on the
\* capacity-0 channel.  The workers waiting to receive are interchangeable
\* (they hold nothing), so the handoff is made to the first of them.
Handoff(w) ==
    /\ prodpc = "send"
    /\ prodIdx <= Len(repos)
    /\ wpc[w] = "recv"
    /\ \A v \in Workers : v < w => wpc[v] # "recv"
    /\ wjob' = [wjob EXCEPT ![w] = prodIdx]
    /\ wpc' = [wpc EXCEPT ![w] = "check"]
    /\ handed' = [handed EXCEPT ![prodIdx] = @ + 1]
    /\ prodIdx' = ProducerNext(prodIdx)
    /\ UNCHANGED <<repos, present, workerLimit, fetchedCap, mainpc, prodpc, wfetched,
                   stop, chan, rxDropped, n, fetched, result, presentBefore,
                   arrived, callbacks, started, outcome, afterStop, startedBy, skipped, gitVars, mergeVars, saveVars>>

\* Line 162: the producer's loop is over; the thread ends and drops pkg_send.
ProducerEnd ==
    /\ prodpc = "send"
    /\ prodIdx > Len(repos)
    /\ prodpc' = "done"
    /\ UNCHANGED <<repos, present, workerLimit, fetchedCap, mainpc, prodIdx, wpc, wjob,
                   wfetched, stop, chan, rxDropped, n, fetched, result, presentBefore,
                   arrived, callbacks, handed, started, outcome, afterStop, startedBy, skipped, gitVars, mergeVars, saveVars>>

\* Lines 163-165: every receiver is dropped, send fails, the producer breaks.
ProducerBreak ==
    /\ prodpc = "send"
    /\ prodIdx <= Len(repos)
    /\ ReceiversDropped
    /\ prodpc' = "done"
    /\ UNCHANGED <<repos, present, workerLimit, fetchedCap, mainpc, prodIdx, wpc, wjob,
                   wfetched, stop, chan, rxDropped, n, fetched, result, presentBefore,
                   arrived, callbacks, handed, started, outcome, afterStop, startedBy, skipped, gitVars, mergeVars, saveVars>>

\* Line 173: the pkg channel is disconnected, the worker's loop ends.
RecvClosed(w) ==
    /\ wpc[w] = "recv"
    /\ prodpc = "done"
    /\ wpc' = [wpc EXCEPT ![w] = "exit"]
    /\ UNCHANGED <<repos, present, workerLimit, fetchedCap, mainpc, prodpc, prodIdx, wjob,
                   wfetched, stop, chan, rxDropped, n, fetched, result, presentBefore,
                   arrived, callbacks, handed, started, outcome, afterStop, startedBy, skipped, gitVars, mergeVars, saveVars>>

\* Lines 174-176: stop.load; break when it is set.
CheckStop(w) ==
    /\ wpc[w] = "check"
    /\ wpc' = [wpc EXCEPT ![w] = IF SeesStop(stop) THEN "exit" ELSE "download"]
    /\ wjob' = [wjob EXCEPT ![w] = IF SeesStop(stop) THEN 0 ELSE @]
    /\ skipped' = IF stop THEN skipped \cup {wjob[w]} ELSE skipped
    /\ UNCHANGED <<repos, present, workerLimit, fetchedCap, mainpc, prodpc, prodIdx,
                   wfetched, stop, chan, rxDropped, n, fetched, result, presentBefore,
                   arrived, callbacks, handed, started, outcome, afterStop, startedBy,
                   gitVars, mergeVars, saveVars>>

\* Lines 211-229 download_pkg up to the start of the git process: a fetch when
\* the directory is a repository, a clone otherwise.
StartProc(w) ==
    /\ wpc[w] = "download"
    /\ wfetched' = [wfetched EXCEPT ![w] = download_pkg_fetched(present, repos[wjob[w]])]
    /\ started' = [started EXCEPT ![wjob[w]] = @ + 1]
    /\ startedBy' = [startedBy EXCEPT ![wjob[w]] = w]
    /\ wpc' = [wpc EXCEPT ![w] = "running"]
    /\ UNCHANGED <<repos, present, workerLimit, fetchedCap, mainpc, prodpc, prodIdx, wjob,
                   stop, chan, rxDropped, n, fetched, result, presentBefore,
                   arrived, callbacks, handed, outcome, afterStop, skipped, gitVars, mergeVars, saveVars>>

\* Lines 228-239 and 181-182: the process exits and its output is captured.
\* A clone that succeeds creates the repository (a clone into a directory
\* that became a repository meanwhile fails); on failure the worker sets stop.
FinishProc(w) ==
    \E ok \in BOOLEAN :
        LET pkg == repos[wjob[w]] IN
        /\ wpc[w] = "running"
        /\ ok => (wfetched[w] \/ pkg \notin present)
        /\ present' = IF ok /\ ~wfetched[w] THEN present \cup {pkg} ELSE present
        /\ outcome' = [outcome EXCEPT ![wjob[w]] = IF ok THEN "ok" ELSE "fail"]
        /\ stop' = (stop \/ ~ok)
        /\ afterStop' = IF stop THEN afterStop + 1 ELSE afterStop
        /\ wpc' = [wpc EXCEPT ![w] = "send"]
        /\ UNCHANGED <<repos, workerLimit, fetchedCap, mainpc, prodpc, prodIdx, wjob,
                       wfetched, chan, rxDropped, n, fetched, result, presentBefore,
                       arrived, callbacks, handed, started, startedBy, skipped, gitVars, mergeVars, saveVars>>

\* Lines 179 and 183-184: fetched_send.send(..), its error ignored.  It blocks
\* while the channel is full and fails once fetched_rec is dropped.  After an
\* Ok the worker receives again; after an Err it breaks.
Send(w) ==
    LET ok == outcome[wjob[w]] = "ok"
        msg == IF ok THEN OkMsg(wjob[w], wfetched[w]) ELSE ErrMsg(wjob[w])
    IN  /\ wpc[w] = "send"
        /\ IF rxDropped
           THEN UNCHANGED <<chan, arrived>>
           ELSE /\ Len(chan) < fetchedCap
                /\ chan' = Append(chan, msg)
                /\ arrived' = Append(arrived, msg)
        /\ wpc' = [wpc EXCEPT ![w] = IF ok THEN "recv" ELSE "exit"]
        /\ wjob' = [wjob EXCEPT ![w] = 0]
        /\ wfetched' = [wfetched EXCEPT ![w] = FALSE]
        /\ UNCHANGED <<repos, present, workerLimit, fetchedCap, mainpc, prodpc, prodIdx,
                       stop, rxDropped, n, fetched, result, presentBefore,
                       callbacks, handed, started, outcome, afterStop, startedBy, skipped, gitVars, mergeVars, saveVars>>

\* Lines 194-204: the consumer takes the next message.  Ok: the callback with
\* n + 1, and the name is pushed when it was fetched.  Err: `msg?` returns it
\* from the closure, dropping fetched_rec with what it still holds.
Consume ==
    /\ mainpc = "consume"
    /\ chan # <<>>
    /\ LET msg == Head(chan) IN
       IF IsErr(msg)
       THEN /\ result' = [ok |-> FALSE, err |-> msg.idx, fetched |-> <<>>]
            /\ rxDropped' = TRUE
            /\ chan' = <<>>
            /\ mainpc' = "join"
            /\ UNCHANGED <<n, fetched, callbacks>>
       ELSE /\ callbacks' = Append(callbacks,
                                   [pkg |-> repos[msg.idx], idx |-> msg.idx, n |-> CallbackN(n)])
            /\ n' = n + 1
            /\ fetched' = IF msg.fetched THEN Append(fetched, repos[msg.idx]) ELSE fetched
            /\ chan' = Tail(chan)
            /\ UNCHANGED <<result, rxDropped, mainpc>>
    /\ UNCHANGED <<repos, present, workerLimit, fetchedCap, prodpc, prodIdx, wpc, wjob,
                   wfetched, stop, presentBefore, arrived, handed, started, outcome,
                   afterStop, startedBy, skipped, gitVars, mergeVars, saveVars>>

\* Lines 194 and 206: the fetched channel is empty and every sender is
\* dropped: the loop ends and the closure returns Ok(fetched).
ConsumeEnd ==
    /\ mainpc = "consume"
    /\ chan = <<>>
    /\ SendersDropped
    /\ result' = [ok |-> TRUE, err |-> 0, fetched |-> fetched]
    /\ rxDropped' = TRUE
    /\ mainpc' = "join"
    /\ UNCHANGED <<repos, present, workerLimit, fetchedCap, prodpc, prodIdx, wpc, wjob,
                   wfetched, stop, chan, n, fetched, presentBefore, arrived, callbacks,
                   handed, started, outcome, afterStop, startedBy, skipped, gitVars, mergeVars, saveVars>>

\* Lines 160 and 207: thread::scope returns when every spawned thread ended.
Join ==
    /\ mainpc = "join"
    /\ prodpc = "done"
    /\ AllWorkersGone
    /\ mainpc' = "done"
    /\ UNCHANGED <<repos, present, workerLimit, fetchedCap, prodpc, prodIdx, wpc, wjob,
                   wfetched, stop, chan, rxDropped, n, fetched, result, presentBefore,
                   arrived, callbacks, handed, started, outcome, afterStop, startedBy, skipped, gitVars, mergeVars, saveVars>>

DlNext ==
    \/ Spawn
    \/ \E w \in Workers : Handoff(w)
    \/ ProducerEnd
    \/ ProducerBreak
    \/ \E w \in Workers : RecvClosed(w)
    \/ \E w \in Workers : CheckStop(w)
    \/ \E w \in Workers : StartProc(w)
    \/ \E w \in Workers : FinishProc(w)
    \/ \E w \in Workers : Send(w)
    \/ Consume
    \/ ConsumeEnd
    \/ Join

(***************************************************************************)
(* Part III.  Fetch::merge_cb (src/src/fetch.rs:413-427) over a list.      *)
(***************************************************************************)
\* A clone whose upstream gained a commit at the last download.
BehindRepo == git_fetch(ClonedRepo, TRUE, "").repo

\* The same with a commit of the user's own on the local branch.
DivergedRepo == git_commit([BehindRepo EXCEPT !.dirty = TRUE], TRUE, TRUE, "").repo

\* The same after a merge whose rebase stopped: mid-rebase, HEAD detached.
StoppedRepo == git_rebase(DivergedRepo, "rebase").repo

\* A clone behind its upstream in which the user checked out the commit by
\* hash: HEAD detached, master where it was.
DetachedRepo == [BehindRepo EXCEPT !.detached = TRUE]

\* A clone behind its upstream with an edited file.
DirtyRepo == [BehindRepo EXCEPT !.dirty = TRUE]

PkgStates == {ClonedRepo, BehindRepo, DivergedRepo, StoppedRepo, DetachedRepo, DirtyRepo}

PkgLists == UNION {[1..k -> PkgStates] : k \in 0..MaxRepos}

NoMergeResult == [ok |-> TRUE, err |-> ""]

\* `?` applied to the value of git_rebase with the error never returned.
ReturnsErr_never(ok) == FALSE

\* src/src/fetch.rs:418 the `?` applied to the value of git_rebase.
ReturnsErr(ok) == ~ok

MergeInit ==
    /\ mergePkgs \in PkgLists
    /\ mergePre = mergePkgs
    /\ mergeN = 0
    /\ mergePc = "loop"
    /\ mergeResult = NoMergeResult
    /\ mergeCmds = [i \in DOMAIN mergePkgs |-> <<>>]
    /\ mergeCallbacks = <<>>
    /\ mergeFailedAt = 0

MergeOff ==
    /\ mergePkgs = <<>>
    /\ mergePre = <<>>
    /\ mergeN = 0
    /\ mergePc = "off"
    /\ mergeResult = NoMergeResult
    /\ mergeCmds = <<>>
    /\ mergeCallbacks = <<>>
    /\ mergeFailedAt = 0

\* One iteration of the for loop of merge_cb: git_rebase on the next package,
\* the error returned at once, the callback with enumerate's n otherwise.
MergeStep ==
    /\ mergePc = "loop"
    /\ mergeN < Len(mergePkgs)
    /\ \E fail \in {"", "reset-head", "checkout", "rebase"} :
        LET i == mergeN + 1
            o == git_rebase(mergePkgs[i], fail)
        IN  /\ o.repo.ncommits <= MaxCommits
            /\ mergePkgs' = [mergePkgs EXCEPT ![i] = o.repo]
            /\ mergeCmds' = [mergeCmds EXCEPT ![i] = @ \o o.cmds]
            /\ mergeFailedAt' = IF o.ok \/ mergeFailedAt # 0 THEN mergeFailedAt ELSE i
            /\ IF ReturnsErr(o.ok)
               THEN /\ mergeResult' = [ok |-> FALSE, err |-> o.err]
                    /\ mergePc' = "done"
                    /\ UNCHANGED <<mergeN, mergeCallbacks>>
               ELSE /\ mergeCallbacks' = Append(mergeCallbacks, [pkg |-> i, n |-> mergeN])
                    /\ mergeN' = mergeN + 1
                    /\ UNCHANGED <<mergeResult, mergePc>>
    /\ UNCHANGED <<mergePre, gitVars, dlVars, saveVars>>

\* The loop is over: Ok(()).
MergeReturn ==
    /\ mergePc = "loop"
    /\ mergeN = Len(mergePkgs)
    /\ mergePc' = "done"
    /\ UNCHANGED <<mergePkgs, mergeN, mergeResult, mergePre, mergeCmds, mergeCallbacks,
                   mergeFailedAt, gitVars, dlVars, saveVars>>

MergeNext ==
    \/ MergeStep
    \/ MergeReturn

(***************************************************************************)
(* Part IV: save_diffs and the diff files make_view looks up.              *)
(* A name is a sequence of one-character strings; a path under diff_dir is *)
(* the sequence of the characters of its file name, the four letters of    *)
(* the extension "diff" taken as one.                                      *)
(***************************************************************************)
Chars == {"a", "."}

\* Package names of 1..MaxName characters; the first is not a '.'.
PkgNames == {s \in UNION {[1..k -> Chars] : k \in 1..MaxName} : s[1] # "."}

\* The lists save_diffs is called with: none, one or two names.
SaveLists == {<<>>} \cup {<<a>> : a \in PkgNames}
                    \cup {<<a, b>> : a, b \in PkgNames}

\* The position of the last '.' of a file name, 0 for none.
LastDot(s) ==
    LET dots == {i \in DOMAIN s : s[i] = "."}
    IN  IF dots = {} THEN 0 ELSE CHOOSE i \in dots : \A j \in dots : j <= i

\* std::path::Path::file_stem: the whole name when it has no '.', or only a
\* leading one; the part before the last '.' otherwise.
file_stem(s) ==
    IF LastDot(s) <= 1 THEN s ELSE SubSeq(s, 1, LastDot(s) - 1)

\* std::path::PathBuf::set_extension with a non-empty extension: the stem,
\* a '.', the extension.
set_extension(s, ext) == file_stem(s) \o <<".", ext>>

\* Lines 331-332: the file of diff_dir save_diffs creates for pkg.
save_path(pkg) == set_extension(pkg, "diff")

\* Lines 375-377: the file of diff_dir make_view looks up for pkg.
view_path(pkg) == pkg \o <<".", "diff">>

\* The stdout of git_log and of git_diff in clone_dir/pkg, and the b"\n".
LogText(pkg) == [part |-> "log", pkg |-> pkg]

Newline == [part |-> "newline", pkg |-> <<>>]

DiffText(pkg) == [part |-> "diff", pkg |-> pkg]

NoFiles == [p \in {} |-> <<>>]

\* File::create then write_all: the file at path holds content.
WriteFile(files, path, content) ==
    [p \in DOMAIN files \cup {path} |-> IF p = path THEN content ELSE files[p]]

NoSaveResult == [ok |-> TRUE, err |-> "none"]

\* Lines 374-381, the loop over diffs into an empty dir: a link for every
\* name whose file exists in diff_dir; symlink fails on a link that exists.
RECURSIVE view_links(_, _, _)
view_links(diffs, files, links) ==
    IF diffs = <<>> THEN [ok |-> TRUE, links |-> links]
    ELSE LET p == view_path(Head(diffs))
         IN  IF p \notin DOMAIN files THEN view_links(Tail(diffs), files, links)
             ELSE IF p \in links THEN [ok |-> FALSE, links |-> links]
             ELSE view_links(Tail(diffs), files, links \cup {p})

SaveInit ==
    /\ savePkgs \in SaveLists
    /\ saveIdx = 1
    /\ savePc = "start"
    /\ saveFiles = NoFiles
    /\ saveResult = NoSaveResult
    /\ saveWritten = <<>>
    /\ viewLinks = {}
    /\ viewResult = TRUE

SaveOff ==
    /\ savePkgs = <<>>
    /\ saveIdx = 1
    /\ savePc = "off"
    /\ saveFiles = NoFiles
    /\ saveResult = NoSaveResult
    /\ saveWritten = <<>>
    /\ viewLinks = {}
    /\ viewResult = TRUE

\* Line 328: mk_diff_dir()?.
SaveMkDir ==
    \E fail \in BOOLEAN :
        /\ savePc = "start"
        /\ savePc' = IF fail THEN "done" ELSE "loop"
        /\ saveResult' = IF fail THEN [ok |-> FALSE, err |-> "mkdir"] ELSE saveResult
        /\ UNCHANGED <<savePkgs, saveIdx, saveFiles, saveWritten, viewLinks,
                       viewResult, gitVars, dlVars, mergeVars>>

\* Lines 330-355, one iteration: the file is created (truncated) at the path
\* with the extension set, then the log, a newline and the diff are written;
\* the first failure returns and leaves what was written so far.
SaveStep ==
    \E fail \in {"", "create", "log", "diff"} :
        LET pkg == savePkgs[saveIdx]
            path == save_path(pkg)
            content == IF fail = "log" THEN <<>>
                       ELSE IF fail = "diff" THEN <<LogText(pkg), Newline>>
                       ELSE <<LogText(pkg), Newline, DiffText(pkg)>>
        IN  /\ savePc = "loop"
            /\ saveIdx <= Len(savePkgs)
            /\ IF fail = "create"
               THEN UNCHANGED <<saveFiles, saveWritten>>
               ELSE /\ saveFiles' = WriteFile(saveFiles, path, content)
                    /\ saveWritten' = Append(saveWritten, path)
            /\ IF fail = ""
               THEN /\ saveIdx' = saveIdx + 1
                    /\ UNCHANGED <<savePc, saveResult>>
               ELSE /\ savePc' = "done"
                    /\ saveResult' = [ok |-> FALSE, err |-> fail]
                    /\ UNCHANGED saveIdx
            /\ UNCHANGED <<savePkgs, viewLinks, viewResult, gitVars, dlVars, mergeVars>>

\* Line 357: Ok(()) after the last package.
SaveReturn ==
    /\ savePc = "loop"
    /\ saveIdx > Len(savePkgs)
    /\ savePc' = "done"
    /\ UNCHANGED <<savePkgs, saveIdx, saveFiles, saveResult, saveWritten, viewLinks,
                   viewResult, gitVars, dlVars, mergeVars>>

\* make_view(dir, pkgs, diffs) with dir empty, pkgs empty and diffs the list
\* save_diffs was called with.
MakeView ==
    /\ savePc = "done"
    /\ savePc' = "viewed"
    /\ viewLinks' = view_links(savePkgs, saveFiles, {}).links
    /\ viewResult' = view_links(savePkgs, saveFiles, {}).ok
    /\ UNCHANGED <<savePkgs, saveIdx, saveFiles, saveResult, saveWritten,
                   gitVars, dlVars, mergeVars>>

SaveNext ==
    \/ SaveMkDir
    \/ SaveStep
    \/ SaveReturn
    \/ MakeView

\* The program's constants and two scaled-down settings of them, so that more
\* repositories than workers and a full fetched channel occur within MaxRepos.
Configs == {<<K, FetchedCap>>, <<1, 1>>, <<2, 1>>}

\* No operation on the single repository of Part I is under way.
GitOff ==
    /\ repo = NoRepo
    /\ ret = NoRet
    /\ markedSeen = FALSE

InitGit ==
    /\ GitInit
    /\ DlOff
    /\ MergeOff
    /\ SaveOff

InitDl ==
    /\ DlInitWith(Configs)
    /\ GitOff
    /\ MergeOff
    /\ SaveOff

InitMerge ==
    /\ MergeInit
    /\ GitOff
    /\ DlOff
    /\ SaveOff

InitSave ==
    /\ SaveInit
    /\ GitOff
    /\ DlOff
    /\ MergeOff

\* Part I: one repository and the operations on it.
SpecGit == InitGit /\ [][GitNext]_vars

\* Part II: one call of download_repos_cb.
SpecDl == InitDl /\ [][DlNext]_vars

\* Part III: one call of merge_cb.
SpecMerge == InitMerge /\ [][MergeNext]_vars

\* Part IV: one call of save_diffs, then one of make_view.
SpecSave == InitSave /\ [][SaveNext]_vars

\* Part II with the threads scheduled and every git process ending.
SpecDlLive == SpecDl /\ WF_vars(DlNext)

(***************************************************************************)
(* Properties of Part I (checked under SpecGit).                           *)
(***************************************************************************)
DiffOps == {"git_diff", "show_git_diff"}

\* C1: whatever git_diff or show_git_diff returns, HEAD after the call is the
\* HEAD from before the call.  (Stated for every outcome but a failure of the
\* restoring reset itself, which no implementation could undo.)
C1_HeadUnchangedByDiff ==
    (ret.op \in DiffOps /\ ret.err # "reset-head") => repo.head = ret.pre.head

\* C2: when the merge step of a diff fails, the restoring reset --hard
\* <saved head> is still the last command issued, the error returned is the
\* merge's, and the repository is not left in the merge state.
C2_MergeFailureStillRestores ==
    (ret.op \in DiffOps /\ ~ret.ok /\ ret.err = "merge") =>
        /\ ret.cmds[Len(ret.cmds)] = "reset-head"
        /\ repo.head = ret.pre.head
        /\ ~repo.inMerge

\* C10: from a successful mark_seen until a fetch moves upstream, has_diff and
\* is_unseen are both false, whatever HEAD and upstream were at mark_seen.
C10_SeenAfterMarkSeen ==
    markedSeen =>
        /\ git_has_diff(repo, "").ok /\ ~git_has_diff(repo, "").flag
        /\ ~git_unseen(repo).flag

(***************************************************************************)
(* Properties of Part II (checked under SpecDl and SpecDlLive).            *)
(***************************************************************************)
Range(s) == {s[i] : i \in DOMAIN s}

Distinct(s) == \A i, j \in DOMAIN s : i # j => s[i] # s[j]

Done == mainpc = "done"

AnyFailed == \E i \in DOMAIN repos : outcome[i] = "fail"

ProgramConstants == workerLimit = K /\ fetchedCap = FetchedCap

SpawnedWorkers == {w \in Workers : wpc[w] # "none"}

Running == {i \in DOMAIN repos : started[i] > 0 /\ outcome[i] = "none"}

CallbacksOf(i) == {k \in DOMAIN callbacks : callbacks[k].idx = i}

\* C3 as stated: when every clone/fetch succeeded, the returned names are
\* exactly the input names that were present before the call.
C3_ReturnsAlreadyPresent ==
    (ProgramConstants /\ Done /\ ~AnyFailed) =>
        /\ result.ok
        /\ Range(result.fetched) = Range(repos) \cap presentBefore

\* C3 amended: the same for an input list that names no repository twice.
C3_ReturnsAlreadyPresentDistinct ==
    (Done /\ ~AnyFailed /\ Distinct(repos)) =>
        /\ result.ok
        /\ Range(result.fetched) = Range(repos) \cap presentBefore
        /\ Distinct(result.fetched)

C3_Witness ==
    /\ Done /\ ~AnyFailed /\ Distinct(repos)
    /\ \E i, j \in DOMAIN repos : repos[i] \in presentBefore /\ repos[j] \notin presentBefore

\* C4 as stated: the callback is invoked exactly once for every repository
\* whose clone/fetch succeeded.
C4_CallbackOncePerSuccess ==
    (ProgramConstants /\ Distinct(repos) /\ Done) =>
        \A i \in DOMAIN repos : outcome[i] = "ok" => Cardinality(CallbacksOf(i)) = 1

\* C4 amended: the i-th callback is for the i-th message that arrived on the
\* fetched channel and carries n = i; no repository gets two callbacks; the
\* messages that got one are the Ok messages ahead of the first Err; when all
\* N succeed there are N callbacks.
C4_CallbacksInArrivalOrder ==
    /\ Len(callbacks) <= Len(arrived)
    /\ \A k \in DOMAIN callbacks :
          /\ callbacks[k].n = k
          /\ arrived[k].ok
          /\ callbacks[k].idx = arrived[k].idx
          /\ callbacks[k].pkg = repos[arrived[k].idx]
    /\ \A i \in DOMAIN repos : Cardinality(CallbacksOf(i)) <= 1
    /\ Done =>
          \/ Len(callbacks) = Len(arrived) /\ result.ok
          \/ Len(callbacks) < Len(arrived) /\ ~arrived[Len(callbacks) + 1].ok
    /\ (Done /\ ~AnyFailed) => Len(callbacks) = Len(repos)

C4_Witness ==
    /\ Done /\ ~AnyFailed
    /\ Len(callbacks) >= 2
    /\ callbacks[1].idx > callbacks[2].idx

\* C5: when a clone/fetch failed, the call returns the first Err that arrived
\* on the fetched channel, returns no list, and made callbacks only for the
\* messages ahead of that Err.
C5_FirstErrorReturned ==
    /\ (Done /\ AnyFailed) => ~result.ok
    /\ (mainpc \in {"join", "done"} /\ ~result.ok) =>
          /\ result.fetched = <<>>
          /\ \E k \in DOMAIN arrived :
                /\ ~arrived[k].ok
                /\ \A j \in 1..(k - 1) : arrived[j].ok
                /\ result.err = arrived[k].idx
                /\ outcome[result.err] = "fail"
                /\ Len(callbacks) = k - 1

C5_Witness ==
    /\ Done /\ ~result.ok
    /\ Len(callbacks) >= 1
    /\ Len(arrived) > Len(callbacks) + 1

\* C6: after stop is set at most K more processes end (in fact fewer than
\* there are workers); an index that a worker held when it loaded a set flag
\* is never started; a started process is running until it has an outcome,
\* and has one when the call returns.
C6_CancellationBound ==
    /\ afterStop <= workerLimit
    /\ stop => afterStop <= NumWorkers(workerLimit, repos) - 1
    /\ \A i \in skipped : started[i] = 0 /\ outcome[i] = "none"
    /\ \A i \in Running : \E w \in Workers : wpc[w] = "running" /\ wjob[w] = i
    /\ Done => Running = {}

C6_Witness ==
    /\ Done /\ afterStop >= 1 /\ skipped # {}

\* C7: min(K, number of repositories) workers are spawned, no more processes
\* than that run at once, and no worker has two of its processes running.
C7_BoundedWorkers ==
    mainpc \notin {"start", "off"} =>
        /\ Cardinality(SpawnedWorkers) = Min(workerLimit, Len(repos))
        /\ Cardinality(Running) <= Min(workerLimit, Len(repos))
        /\ \A w \in Workers :
              Cardinality({i \in Running : startedBy[i] = w}) <= 1

C7_Witness ==
    /\ workerLimit < Len(repos)
    /\ Cardinality(Running) = workerLimit
    /\ \E i \in DOMAIN repos : outcome[i] # "none" /\ startedBy[i] \in {startedBy[j] : j \in Running}

\* C8: every index is handed to a worker at most once and its process is
\* started at most once, also after a failure; when nothing failed every
\* index was handed over, started and completed once, with one callback.
C8_EachReferenceOnce ==
    /\ \A i \in Indexes : handed[i] <= 1 /\ started[i] <= 1
    /\ \A i \in Indexes : i > Len(repos) => handed[i] = 0
    /\ (Done /\ ~AnyFailed) =>
          \A i \in DOMAIN repos :
              /\ handed[i] = 1
              /\ started[i] = 1
              /\ outcome[i] = "ok"
              /\ Cardinality(CallbacksOf(i)) = 1

C8_Witness ==
    /\ Done /\ ~AnyFailed
    /\ Len(repos) >= 2
    /\ workerLimit = 1

ReturnedOk == Done /\ result.ok

\* C9: unless a clone/fetch fails, the call eventually returns Ok; and when it
\* has, the producer handed over every reference and ended, every worker
\* ended, the fetched channel is closed and drained and every result got its
\* callback.
C9_ReturnsWhenAllSucceed ==
    /\ <>(AnyFailed \/ ReturnedOk)
    /\ [](ReturnedOk =>
            /\ prodpc = "done" /\ prodIdx = Len(repos) + 1
            /\ AllWorkersGone
            /\ rxDropped /\ chan = <<>>
            /\ Len(arrived) = Len(repos)
            /\ Len(callbacks) = Len(repos))

C9_Witness ==
    /\ ReturnedOk
    /\ Len(repos) > fetchedCap

(***************************************************************************)
(* Properties of the queries and of download, diff and merge on one        *)
(* repository (checked under SpecGit).                                     *)
(***************************************************************************)
\* C11: has_diff changes nothing on disk; when it returns a boolean, that is
\* true exactly when AUR_SEEN exists and its commit differs from upstream's;
\* without AUR_SEEN it returns false.
C11_HasDiffIffSeenDiffers ==
    ret.op = "has_diff" =>
        /\ repo = ret.pre
        /\ ret.ok => (ret.flag <=> (ret.pre.seen # NoCommit /\ ret.pre.seen # ret.pre.upstream))
        /\ ret.pre.seen = NoCommit => (ret.ok /\ ~ret.flag)

\* has_diff answered true for a repository whose HEAD is already at upstream.
C11_Witness ==
    /\ ret.op = "has_diff" /\ ret.ok /\ ret.flag
    /\ ret.pre.head = ret.pre.upstream

C13_NoSeenDiffsFromEmptyTree ==
    (ret.op \in DiffOps /\ ret.pre.seen = NoCommit) =>
        /\ "reset-seen" \notin {ret.cmds[i] : i \in DOMAIN ret.cmds}
        /\ "merge" \notin {ret.cmds[i] : i \in DOMAIN ret.cmds}
        /\ (ret.op = "git_diff" /\ ret.ok) => ret.val = Diff(NoCommit, ret.pre.upstream)

\* A first diff of a clone that is up to date returned the whole tree.
C13_Witness ==
    /\ ret.op = "git_diff" /\ ret.ok
    /\ ret.pre.seen = NoCommit /\ ret.pre.head = ret.pre.upstream
    /\ ret.val = Diff(NoCommit, ret.pre.upstream) /\ ret.val.to # NoCommit

\* C14: a successful download right after a successful download, the remote
\* unchanged in between, leaves the disk state as the first one left it and
\* reports the repository as already present.
C14_DownloadTwiceSameState ==
    (ret.op = "download" /\ ret.ok /\ ret.afterDownload /\ ~ret.gain) =>
        (repo = ret.pre /\ ret.flag)

\* The second of two downloads in a row returned.
C14_Witness ==
    /\ ret.op = "download" /\ ret.ok /\ ret.afterDownload /\ ~ret.gain
    /\ repo.exists /\ repo.seen = NoCommit

\* needs_merge is named by the examples of src/src/lib.rs and defined nowhere
\* in src/; spec.md: local HEAD differs from the upstream reference, and an
\* upstream reference that cannot be resolved counts as no merge needed.
needs_merge(r) == ResolvesUpstream(r) /\ r.head # r.upstream

\* C15 as stated: a download of a present repository whose upstream gained a
\* commit reports it present and needs_merge is then true; after a successful
\* merge of a repository whose HEAD lacks commits of upstream, needs_merge is
\* false: HEAD equals upstream.
C15_MergeMakesHeadUpstream ==
    /\ (ret.op = "download" /\ ret.ok /\ ret.pre.exists /\ ret.gain) =>
           (ret.flag /\ needs_merge(repo))
    /\ (/\ ret.op = "merge" /\ ret.ok
        /\ ~IsAncestor(ret.pre, ret.pre.upstream, ret.pre.head)) =>
           (~needs_merge(repo) /\ repo.head = repo.upstream)

\* The branch git_rebase rebases: the one checked out, master when detached.
RebasedBranch(r) == IF r.detached THEN r.branch ELSE r.head

\* C15 amended: such a download reports the repository present and leaves
\* HEAD different from upstream (needs_merge true when HEAD is on a branch);
\* after a successful merge upstream is an ancestor of (or equal to) HEAD, and
\* needs_merge is false (HEAD equals upstream) when the branch held no commit
\* outside upstream's history.
C15_MergeMakesHeadContainUpstream ==
    /\ (ret.op = "download" /\ ret.ok /\ ret.pre.exists /\ ret.gain) =>
           /\ ret.flag /\ repo.head # repo.upstream
           /\ ~repo.detached => needs_merge(repo)
    /\ (ret.op = "merge" /\ ret.ok) =>
           /\ IsAncestor(repo, repo.upstream, repo.head)
           /\ LocalCommits(ret.pre, ret.pre.upstream, RebasedBranch(ret.pre)) = <<>>
                  => (~needs_merge(repo) /\ repo.head = repo.upstream)

\* A merge moved HEAD from behind upstream onto upstream.
C15_Witness ==
    /\ ret.op = "merge" /\ ret.ok
    /\ ~IsAncestor(ret.pre, ret.pre.upstream, ret.pre.head)
    /\ repo.head = repo.upstream

\* C17: every process an operation starts, the clone and the fetch of a
\* download included, has GIT_TERMINAL_PROMPT=0 in its environment.
C17_EveryCommandPromptOff ==
    \A i \in DOMAIN ret.cmds : \A flags \in FlagLists :
        TerminalPromptOff \in Invocation(flags, ret.cmds[i]).env

\* C18: the log returned with a diff lists the commits of upstream's history
\* that are not in AUR_SEEN's history (all of upstream's history without
\* AUR_SEEN), wherever HEAD is.
C18_LogCoversDiffRange ==
    (ret.op = "git_diff" /\ ret.ok) =>
        ret.log = LocalCommits(ret.pre, ret.pre.seen, ret.pre.upstream)

\* C19: every process an operation starts, the clone and the fetch of a
\* download included, has git_flags, in order, ahead of the operation's args.
C19_EveryCommandHasFlagsFirst ==
    \A i \in DOMAIN ret.cmds : \A flags \in FlagLists :
        Invocation(flags, ret.cmds[i]).argv = flags \o Args(ret.cmds[i])

\* C20: has_diff on a repository whose HEAD@{u} does not resolve returns
\* Ok(false), with AUR_SEEN or without.
C20_HasDiffFalseWithoutUpstream ==
    (ret.op = "has_diff" /\ ~ResolvesUpstream(ret.pre)) => (ret.ok /\ ~ret.flag)

(***************************************************************************)
(* Properties of Part III (checked under SpecMerge).                       *)
(***************************************************************************)
\* The history of package j's HEAD contains its upstream.
Merged(j) == IsAncestor(mergePkgs[j], mergePkgs[j].upstream, mergePkgs[j].head)

\* C16: when git_rebase fails on a package, merge has returned that error;
\* the rebase, when it was the command that failed, is the last command issued
\* on the package (no abort, no reset) and a rebase that stopped on diverged
\* histories is left stopped; the packages after it are untouched and the ones
\* before it are merged.
C16_MergeStopsAtFailedRebase ==
    mergeFailedAt # 0 =>
        LET f == mergeFailedAt IN
        /\ mergePc = "done" /\ ~mergeResult.ok
        /\ mergeN = f - 1
        /\ mergeResult.err = "rebase" =>
               /\ mergeCmds[f][Len(mergeCmds[f])] = "rebase"
               /\ mergePre[f] = DivergedRepo => mergePkgs[f].midRebase
        /\ \A j \in DOMAIN mergePkgs :
               /\ j > f => (mergePkgs[j] = mergePre[j] /\ mergeCmds[j] = <<>>)
               /\ j < f => Merged(j)

\* The rebase of the second of three packages stopped on diverged histories,
\* the first one merged a new upstream commit before it.
C16_Witness ==
    /\ mergeFailedAt = 2 /\ Len(mergePkgs) = 3
    /\ mergeResult.err = "rebase"
    /\ mergePkgs[2].midRebase
    /\ mergePre[1] = BehindRepo /\ mergePkgs[1].head = mergePkgs[1].upstream
    /\ mergePre[3] # ClonedRepo

\* The packages on which merge_cb has called git_rebase.
Rebased == {j \in DOMAIN mergePkgs : mergeCmds[j] # <<>>}

\* C21: on each package merge issues reset --hard HEAD, then symbolic-ref,
\* then checkout master exactly when HEAD was detached, then the rebase; a
\* failed reset or checkout ends it with no rebase issued; after a successful
\* merge HEAD is on a branch and the working tree has no uncommitted edits.
C21_MergeStepsInOrder ==
    \A j \in Rebased :
        LET c == mergeCmds[j]
            det == mergePre[j].detached
            full == IF det THEN <<"reset-head", "symbolic-ref", "checkout", "rebase">>
                    ELSE <<"reset-head", "symbolic-ref", "rebase">>
        IN  /\ Len(c) <= Len(full) /\ c = SubSeq(full, 1, Len(c))
            /\ (j = mergeFailedAt /\ mergeResult.err \in {"reset-head", "checkout"}) =>
                   /\ c[Len(c)] = mergeResult.err
                   /\ \A k \in DOMAIN c : c[k] # "rebase"
            /\ j # mergeFailedAt =>
                   /\ c = full
                   /\ ~mergePkgs[j].detached
                   /\ ~mergePkgs[j].dirty

\* A merge succeeded on a detached clone and on one with an edited file, and
\* another one ended at the failed checkout.
C21_Witness ==
    /\ Len(mergePkgs) = 3 /\ mergeFailedAt = 3
    /\ mergePre[1] = DetachedRepo /\ mergePre[2] = DirtyRepo
    /\ mergePre[3] = DetachedRepo /\ mergeResult.err = "checkout"

\* C23: merge_cb has called cb once for each package merged so far, in input
\* order, before any command on the next package, and the k-th call carries
\* n = k, the number of packages finished (1 for the first).
C23_MergeCallbackCountsFinished ==
    /\ Len(mergeCallbacks) = mergeN
    /\ \A j \in Rebased : Len(mergeCallbacks) >= j - 1
    /\ \A k \in DOMAIN mergeCallbacks :
           /\ mergeCallbacks[k].pkg = k
           /\ mergeCallbacks[k].n = k

\* The message of a commit command: the argument after -am.
MessageOf(name) == Args(name)[Len(Args(name))]

\* The command runs with the fallback identity given by -c user.name=aur.
FallbackIdentity(name) == \E k \in DOMAIN Args(name) : Args(name)[k] = "user.name=aur"

\* C24: commit on a repository with uncommitted edits makes one commit, with
\* the caller's message, under the configured identity when user.name and
\* user.email are both configured and under the fallback identity otherwise;
\* on a clean repository it makes no commit and returns no error.
C24_CommitCarriesMessage ==
    (ret.op = "commit" /\ ret.pre.exists) =>
        IF ret.pre.dirty
        THEN ret.ok =>
                 LET c == ret.cmds[Len(ret.cmds)] IN
                 /\ repo.ncommits = ret.pre.ncommits + 1
                 /\ repo.head = repo.ncommits
                 /\ repo.parent[repo.head] = ret.pre.head
                 /\ ~repo.dirty
                 /\ MessageOf(c) = "<message>"
                 /\ FallbackIdentity(c) <=> ~ret.hasUser
        ELSE ret.ok /\ repo = ret.pre

\* C26: when git_diff or show_git_diff returns Ok, HEAD and its branch are
\* where they were, no merge is in progress, the working tree has no
\* uncommitted edits (those there before the call are gone), and AUR_SEEN,
\* upstream and the commits are unchanged.
C26_DiffOkRestoresCleanHead ==
    (ret.op \in DiffOps /\ ret.ok) =>
        /\ repo.head = ret.pre.head
        /\ repo.branch = ret.pre.branch
        /\ ~repo.inMerge
        /\ ~repo.dirty
        /\ repo = [ret.pre EXCEPT !.dirty = FALSE, !.inMerge = FALSE]

\* A diff succeeded on an edited working tree whose AUR_SEEN is behind HEAD.
C26_Witness ==
    /\ ret.op \in DiffOps /\ ret.ok
    /\ ret.pre.dirty
    /\ ret.pre.seen # NoCommit /\ ret.pre.seen # ret.pre.head
    /\ ret.pre.head # ret.pre.upstream

(***************************************************************************)
(* Termination of download_repos_cb after a failure (checked under         *)
(* SpecDlLive).                                                            *)
(***************************************************************************)
\* C25: once a clone/fetch has failed the call still returns, and whenever it
\* has returned the producer and every worker have ended: none is left
\* blocked on a send or a receive; every behaviour reaches the return.
C25_ReturnsAfterFailure ==
    /\ AnyFailed ~> Done
    /\ <>Done
    /\ [](Done => (prodpc = "done" /\ AllWorkersGone /\ rxDropped))

\* The call returned an error while the producer still had a reference to
\* hand over: a repository was never started, and every thread has ended.
C25_Witness ==
    /\ Done /\ AnyFailed /\ ~result.ok
    /\ prodpc = "done" /\ prodIdx <= Len(repos)
    /\ \E i \in DOMAIN repos : started[i] = 0

(***************************************************************************)
(* Properties of Part IV (checked under SpecSave).                         *)
(***************************************************************************)
\* What save_diffs writes for pkg: the log, a newline, the diff.
SavedText(pkg) == <<LogText(pkg), Newline, DiffText(pkg)>>

\* C22: the file save_diffs creates for a name is the one make_view looks up
\* for it (diff_dir/<name>.diff), also for a name containing a '.'; two
\* distinct names never get the same file; and after save_diffs returned Ok
\* the file of every name of the list holds its log, a newline, its diff.
C22_SavedWhereViewLooks ==
    /\ \A k \in DOMAIN saveWritten :
           saveWritten[k] = view_path(savePkgs[k])
    /\ \A j, k \in DOMAIN saveWritten :
           savePkgs[j] # savePkgs[k] => saveWritten[j] # saveWritten[k]
    /\ (savePc \in {"done", "viewed"} /\ saveResult.ok) =>
           \A k \in DOMAIN savePkgs :
               /\ view_path(savePkgs[k]) \in DOMAIN saveFiles
               /\ saveFiles[view_path(savePkgs[k])] = SavedText(savePkgs[k])

====
